---- MODULE Spec2Model ----
(***************************************************************************)
(* A model of mlpackMain() of the decision_tree command-line program       *)
(* (src/mlpack/methods/decision_tree/decision_tree_main.cpp).              *)
(*                                                                         *)
(* The program is one synchronous handler.  It is cut into the steps of   *)
(* its text: the parameter checks of lines 131-145, the load-or-train      *)
(* branch of lines 152-214, the test branch of lines 217-247 and the       *)
(* final assignment of line 250.  The CLI parameter store is the variable  *)
(* cli; the handler's locals keep their names.                             *)
(*                                                                         *)
(* Numbers of type double are kept in fixed point.  Matrix entries are     *)
(* counted in halves (3 stands for 1.5); minimum_gain_split is counted in  *)
(* units of 1e-7 (GainOne stands for 1.0).                                 *)
(***************************************************************************)
EXTENDS Integers, Sequences, FiniteSets, TLC

\* ------------------------------------------------------------------ bounds
MaxRows == 2

MaxCols == 2

\* ------------------------------------------------------- program constants
DefaultLeafSize == 20

DefaultGainSplit == 1

GainZero == 0

GainOne == 10000000

\* ---------------------------------------------------------------- helpers
Range(s) == {s[i] : i \in 1..Len(s)}

SetMax(S) == CHOOSE x \in S : \A y \in S : y <= x

NoTree == [none |-> TRUE]

NoInfo == [dimensionality |-> 0]

\* A DecisionTreeModel: the tree and the DatasetInfo (lines 100-117).
DecisionTreeModel(tree, info) == [tree |-> tree, info |-> info]

\* What `model` points to before line 154 or 213 assigns it.
NoModel == DecisionTreeModel(NoTree, NoInfo)

\* ---------------------------------------------------- matrices (arma::mat)
\* A matrix is its column count and the sequence of its rows.
Mat(c, rs) == [n_cols |-> c, rows |-> rs]

n_rows(m) == Len(m.rows)

Row(m, r) == m.rows[r]

Col(m, c) == [r \in 1..n_rows(m) |-> m.rows[r][c]]

MatricesOver(V, maxR, maxC) ==
  UNION {{Mat(c, rs) : rs \in [1..r -> [1..c -> V]]} : <<r, c>> \in (1..maxR) \X (1..maxC)}

RowsOver(V, maxC) == UNION {[1..c -> V] : c \in 1..maxC}

\* arma::Mat::shed_row(r) for the 1-based row r.
shed_row(m, r) == Mat(m.n_cols, SubSeq(m.rows, 1, r - 1) \o SubSeq(m.rows, r + 1, n_rows(m)))

\* The conversion of one double (in halves) to size_t done by
\* arma::conv_to<arma::Row<size_t>>::from: the fraction is dropped and a
\* negative value becomes 0.
ConvToSizeT(v) == IF v < 0 THEN 0 ELSE v \div 2

conv_to_Row(r) == [i \in 1..Len(r) |-> ConvToSizeT(r[i])]

\* The 1-based index of the row read and shed at lines 166-168
\* (trainingSet.n_rows - 1 in the 0-based source).
LabelRowOffByOne(m) == IF n_rows(m) > 1 THEN n_rows(m) - 1 ELSE n_rows(m)

LabelRow(m) == n_rows(m)

\* ------------------------------------------ DatasetInfo and the classifier
InfoOf(m) == [dimensionality |-> n_rows(m)]

\* DecisionTree<>(data, info, labels, numClasses, [weights,] minLeafSize,
\* minimumGainSplit): the trained tree is a value fixed by the arguments.
TrainTree(data, info, labs, numClasses, weights, minLeafSize, minimumGainSplit) ==
  [data |-> data, info |-> info, labels |-> labs, numClasses |-> numClasses,
   weights |-> weights, minLeafSize |-> minLeafSize,
   minimumGainSplit |-> minimumGainSplit]

\* The class the tree gives one point: the label of the first training point
\* with the same coordinates, and class 0 when there is none.
ClassifyPoint(tree, p) ==
  LET hits == {j \in 1..tree.data.n_cols : j <= Len(tree.labels) /\ Col(tree.data, j) = p}
  IN  IF hits = {} THEN 0
      ELSE tree.labels[CHOOSE j \in hits : \A k \in hits : j <= k]

\* DecisionTree::Classify(data, predictions, probabilities): one prediction
\* and one probability column per column of data.
ClassifyPredictions(tree, data) ==
  [c \in 1..data.n_cols |-> ClassifyPoint(tree, Col(data, c))]

ClassifyProbabilities(tree, data) ==
  [c \in 1..data.n_cols |->
     [k \in 1..tree.numClasses |->
        IF k - 1 = ClassifyPoint(tree, Col(data, c)) THEN 1 ELSE 0]]

\* Classify is defined for data of the tree's dimensionality.
ClassifyAccepts(tree, data) == n_rows(data) = n_rows(tree.data)

\* -------------------------------------------------------------- the state
VARIABLES
  cli,            \* the CLI parameter store: what was passed, and the values
  testInfo,       \* std::get<0> of the "test" parameter (its DatasetInfo)
  out,            \* the output parameters predictions, probabilities, output_model
  pc,             \* the statement mlpackMain() is at
  error,          \* the error that ended the run, "none" while there is none
  model,          \* DecisionTreeModel* model
  trainingSet,    \* arma::mat trainingSet
  labels,         \* arma::Row<size_t> labels
  predictions,    \* arma::Row<size_t> predictions of the test branch
  probabilities,  \* arma::mat probabilities of the test branch
  log,            \* what was written to Log::Warn and Log::Info, in order
  calls,          \* the calls made to DecisionTree<>, in order
  phases,         \* the phases that have run, in order
  oob             \* an element past the end of a vector has been read

vars == <<cli, testInfo, out, pc, error, model, trainingSet, labels,
          predictions, probabilities, log, calls, phases, oob>>

Params == {"training", "labels", "test", "weights", "test_labels",
           "print_training_error", "input_model", "output_model",
           "probabilities", "predictions"}

\* CLI::HasParam(name)
HasParam(name) == name \in cli.passed

\* ------------------------------------------ parameter checks (param_checks)
\* Each check answers "ok", "warn" or "fatal"; a fatal answer is what
\* Log::Fatal turns into the exception that ends the run.
RequireOnlyOnePassed(set, fatal) ==
  IF Cardinality(set \cap cli.passed) = 1 THEN "ok"
  ELSE IF fatal THEN "fatal" ELSE "warn"

RequireAtLeastOnePassed(set, fatal) ==
  IF set \cap cli.passed # {} THEN "ok"
  ELSE IF fatal THEN "fatal" ELSE "warn"

\* TRUE when paramName is reported as ignored: it was passed and every
\* constraint <<name, wanted>> holds.
ReportIgnoredParam(constraints, paramName) ==
  /\ HasParam(paramName)
  /\ \A c \in constraints : HasParam(c[1]) = c[2]

RequireParamValue(holds, fatal) ==
  IF holds THEN "ok" ELSE IF fatal THEN "fatal" ELSE "warn"

\* Line 131: RequireOnlyOnePassed({ "training", "input_model" }, true).
ModeSetTrainingOnly == {"training"}

ModeSet == {"training", "input_model"}

ModeFatal == TRUE

\* Lines 133-134: RequireAtLeastOnePassed({ outputs }, false, ...).
OutputSet == {"output_model", "probabilities", "predictions"}

OutputsFatalTrue == TRUE

OutputsFatal == FALSE

\* Line 140: [](int x) { return x > 0; }, true.
LeafSizeOk(x) == x > 0

LeafSizeFatalFalse == FALSE

LeafSizeFatal == TRUE

\* Lines 143-144: [](double x) { return (x > 0.0 && x < 1.0); }, true.
GainSplitOkClosed(x) == x >= GainZero /\ x <= GainOne

GainSplitOk(x) == x > GainZero /\ x < GainOne

GainSplitFatal == TRUE

Warning(p) == [kind |-> "warn", param |-> p]

Accuracy(set, correct, total) ==
  [kind |-> "info", param |-> set, correct |-> correct, total |-> total]

\* Lines 132-138 in order: the warnings the five non-fatal checks write.
IgnoredWarnings ==
  (IF ReportIgnoredParam({<<"test", FALSE>>}, "test_labels")
     THEN <<Warning("test_labels")>> ELSE <<>>)
  \o (IF RequireAtLeastOnePassed(OutputSet, OutputsFatal) = "warn"
     THEN <<Warning("no output will be saved")>> ELSE <<>>)
  \o (IF ReportIgnoredParam({<<"training", FALSE>>}, "print_training_error")
     THEN <<Warning("print_training_error")>> ELSE <<>>)
  \o (IF ReportIgnoredParam({<<"test", FALSE>>}, "predictions")
     THEN <<Warning("predictions"), Warning("predictions")>> ELSE <<>>)

\* --------------------------------------------------------------- the steps
\* An exception leaves mlpackMain(): nothing after the throwing statement runs.
Throw(e) ==
  /\ pc' = "failed"
  /\ error' = e

Verdict(v, w, next) ==
  IF v = "fatal"
    THEN Throw("ConfigurationError") /\ UNCHANGED log
    ELSE /\ pc' = next
         /\ error' = error
         /\ log' = IF v = "warn" THEN Append(log, Warning(w)) ELSE log

Locals == <<model, trainingSet, labels, predictions, probabilities>>

\* Line 131.
CheckMode ==
  /\ pc = "CheckMode"
  /\ Verdict(RequireOnlyOnePassed(ModeSet, ModeFatal), "mode", "ReportIgnored")
  /\ phases' = Append(phases, "CheckMode")
  /\ UNCHANGED <<cli, testInfo, out, Locals, calls, oob>>

\* Lines 132-138.
ReportIgnored ==
  /\ pc = "ReportIgnored"
  /\ IF RequireAtLeastOnePassed(OutputSet, OutputsFatal) = "fatal"
       THEN Throw("ConfigurationError") /\ UNCHANGED log
       ELSE /\ pc' = "CheckLeafSize"
            /\ log' = log \o IgnoredWarnings
            /\ UNCHANGED error
  /\ phases' = Append(phases, "ReportIgnored")
  /\ UNCHANGED <<cli, testInfo, out, Locals, calls, oob>>

\* Lines 140-141.
CheckLeafSize ==
  /\ pc = "CheckLeafSize"
  /\ Verdict(RequireParamValue(LeafSizeOk(cli.minimum_leaf_size), LeafSizeFatal),
             "minimum_leaf_size", "CheckGainSplit")
  /\ phases' = Append(phases, "CheckLeafSize")
  /\ UNCHANGED <<cli, testInfo, out, Locals, calls, oob>>

\* Lines 143-145.
CheckGainSplit ==
  /\ pc = "CheckGainSplit"
  /\ Verdict(RequireParamValue(GainSplitOk(cli.minimum_gain_split), GainSplitFatal),
             "minimum_gain_split", "LoadOrTrain")
  /\ phases' = Append(phases, "CheckGainSplit")
  /\ UNCHANGED <<cli, testInfo, out, Locals, calls, oob>>

\* Line 213: model = CLI::GetParam<DecisionTreeModel*>("input_model").
LoadModel ==
  /\ pc = "LoadOrTrain"
  /\ ~HasParam("training")
  /\ model' = cli.input_model
  /\ pc' = "Test"
  /\ phases' = Append(phases, "LoadModel")
  /\ UNCHANGED <<cli, testInfo, out, error, trainingSet, labels, predictions,
                 probabilities, log, calls, oob>>

\* Lines 159 and 166-168: the labels and the training set that go to training.
ResolvedLabels ==
  IF HasParam("labels") THEN cli.labels
  ELSE conv_to_Row(Row(cli.training, LabelRow(cli.training)))

ResolvedTrainingSet ==
  IF HasParam("labels") THEN cli.training
  ELSE shed_row(cli.training, LabelRow(cli.training))

\* Lines 152-169.
ResolveLabels ==
  /\ pc = "LoadOrTrain"
  /\ HasParam("training")
  /\ model' = DecisionTreeModel(NoTree, cli.training_info)
  /\ trainingSet' = ResolvedTrainingSet
  /\ labels' = ResolvedLabels
  /\ log' = IF HasParam("labels") THEN log
            ELSE Append(log, [kind |-> "info", param |-> "last dimension as labels"])
  /\ pc' = "Train"
  /\ phases' = Append(phases, "ResolveLabels")
  /\ UNCHANGED <<cli, testInfo, out, error, predictions, probabilities, calls, oob>>

\* Line 171: arma::max(arma::max(labels)) + 1.
NumClasses(labs) == SetMax(Range(labs)) + 1

\* Lines 174-190: the tree the constructor call builds.
BuiltTree ==
  TrainTree(trainingSet, model.info, labels, NumClasses(labels),
            IF HasParam("weights") THEN cli.weights ELSE <<>>,
            cli.minimum_leaf_size, cli.minimum_gain_split)

\* Lines 171-190.  The constructor reads one label per column of the training
\* set; with fewer labels than columns the reads run past the end of labels,
\* and the call either ends the run or returns a tree.
Train ==
  /\ pc = "Train"
  /\ calls' = Append(calls, "Train")
  /\ phases' = Append(phases, "Train")
  /\ \/ /\ model' = DecisionTreeModel(BuiltTree, model.info)
        /\ pc' = "PrintTrainingError"
        /\ UNCHANGED error
     \/ /\ Len(labels) < trainingSet.n_cols
        /\ Throw("ClassifierError")
        /\ UNCHANGED model
  /\ UNCHANGED <<cli, testInfo, out, trainingSet, labels, predictions,
                 probabilities, log, oob>>

\* The loops of lines 201-203 and 234-236 for i = 0 .. n-1, with 1-based
\* indices here: the positions read inside both vectors that agree, and the
\* positions read past the end of one of them.
CountCorrect(preds, labs, n) ==
  Cardinality({i \in 1..n : i <= Len(preds) /\ i <= Len(labs) /\ preds[i] = labs[i]})

PastTheEnd(preds, labs, n) == {i \in 1..n : i > Len(preds) \/ i > Len(labs)}

\* What the loop leaves in `correct`.  operator[] does no bounds check: a read
\* past the end yields any value, so each such position may or may not count,
\* or the read ends the run.
AccuracyLoop(set, preds, labs, n, next) ==
  /\ oob' = (oob \/ PastTheEnd(preds, labs, n) # {})
  /\ \/ /\ \E k \in 0..Cardinality(PastTheEnd(preds, labs, n)) :
             log' = Append(log, Accuracy(set, CountCorrect(preds, labs, n) + k, n))
        /\ pc' = next
        /\ UNCHANGED error
     \/ /\ PastTheEnd(preds, labs, n) # {}
        /\ Throw("Crash")
        /\ UNCHANGED log

\* Lines 193-209.
PrintTrainingError ==
  /\ pc = "PrintTrainingError"
  /\ IF HasParam("print_training_error")
       THEN /\ calls' = Append(calls, "Classify")
            /\ phases' = Append(phases, "PrintTrainingError")
            /\ AccuracyLoop("training", ClassifyPredictions(model.tree, trainingSet),
                            labels, trainingSet.n_cols, "Test")
       ELSE /\ pc' = "Test"
            /\ UNCHANGED <<calls, phases, oob, log, error>>
  /\ UNCHANGED <<cli, testInfo, out, Locals>>

\* Lines 217-226.  testPoints is the matrix of the "test" parameter.
testPoints == cli.test

TestClassify ==
  /\ pc = "Test"
  /\ IF HasParam("test")
       THEN /\ testInfo' = model.info
            /\ calls' = Append(calls, "Classify")
            /\ phases' = Append(phases, "TestClassify")
            /\ IF ClassifyAccepts(model.tree, testPoints)
                 THEN /\ predictions' = ClassifyPredictions(model.tree, testPoints)
                      /\ probabilities' = ClassifyProbabilities(model.tree, testPoints)
                      /\ pc' = "TestAccuracy"
                      /\ UNCHANGED error
                 ELSE /\ Throw("ClassifierError")
                      /\ UNCHANGED <<predictions, probabilities>>
       ELSE /\ pc' = "SaveModel"
            /\ UNCHANGED <<testInfo, calls, phases, predictions, probabilities, error>>
  /\ UNCHANGED <<cli, out, model, trainingSet, labels, log, oob>>

\* Lines 228-242.
TestAccuracy ==
  /\ pc = "TestAccuracy"
  /\ IF HasParam("test_labels")
       THEN /\ phases' = Append(phases, "TestAccuracy")
            /\ AccuracyLoop("test", predictions, cli.test_labels, testPoints.n_cols,
                            "SaveOutputs")
       ELSE /\ pc' = "SaveOutputs"
            /\ UNCHANGED <<phases, oob, log, error>>
  /\ UNCHANGED <<cli, testInfo, out, Locals, calls>>

\* Lines 245-246 lie in the block of line 217 and outside that of line 228.
SavesOutputsWithLabels == HasParam("test") /\ HasParam("test_labels")

SavesOutputs == HasParam("test")

\* Lines 245-246.
SaveOutputs ==
  /\ pc = "SaveOutputs"
  /\ out' = IF SavesOutputs
              THEN [out EXCEPT !.set = @ \cup {"predictions", "probabilities"},
                               !.predictions = predictions,
                               !.probabilities = probabilities]
              ELSE out
  /\ pc' = "SaveModel"
  /\ phases' = Append(phases, "SaveOutputs")
  /\ UNCHANGED <<cli, testInfo, error, Locals, log, calls, oob>>

\* Line 250: the value given to the output_model parameter.
SavedModelValueTrainedOnly == IF HasParam("training") THEN model ELSE NoModel

SavedModelValue == model

\* Line 250.
SaveModel ==
  /\ pc = "SaveModel"
  /\ out' = [out EXCEPT !.set = @ \cup {"output_model"}, !.output_model = SavedModelValue]
  /\ pc' = "done"
  /\ phases' = Append(phases, "SaveModel")
  /\ UNCHANGED <<cli, testInfo, error, Locals, log, calls, oob>>

\* ------------------------------------------------------------- the inputs
\* Matrix entries in halves: -0.5, 1.0 and 1.5.
Vals == {-1, 2, 3}

FewVals == {-1, 3}

Classes == {0, 1}

EmptyMat == Mat(0, <<>>)

Ones(n) == [i \in 1..n |-> 2]

\* Models written by an earlier run of the program (output_model).
SavedModel(data, labs) ==
  DecisionTreeModel(
    TrainTree(data, InfoOf(data), labs, NumClasses(labs), <<>>,
              DefaultLeafSize, DefaultGainSplit),
    InfoOf(data))

SavedModels ==
  {SavedModel(Mat(2, <<<<-1, 3>>>>), <<0, 1>>),
   SavedModel(Mat(2, <<<<-1, 3>>, <<3, 3>>>>), <<1, 0>>)}

\* The parameter store after the command line was parsed and the files were
\* loaded.  A parameter that was not passed holds its default: an empty
\* matrix or vector, no model, 20 and 1e-7.
Store(passed, training, labs, test, test_labels, input_model, leaf, gain) ==
  [passed               |-> passed,
   training             |-> IF "training" \in passed THEN training ELSE EmptyMat,
   training_info        |-> IF "training" \in passed THEN InfoOf(training) ELSE NoInfo,
   labels               |-> IF "labels" \in passed THEN labs ELSE <<>>,
   test                 |-> IF "test" \in passed THEN test ELSE EmptyMat,
   weights              |-> IF "weights" \in passed /\ "training" \in passed
                              THEN Ones(training.n_cols) ELSE <<>>,
   test_labels          |-> IF "test_labels" \in passed THEN test_labels ELSE <<>>,
   input_model          |-> IF "input_model" \in passed THEN input_model ELSE NoModel,
   minimum_leaf_size    |-> leaf,
   minimum_gain_split   |-> gain]

LeafSizes == {-1, 0, 1, DefaultLeafSize}

GainSplits == {-1, GainZero, DefaultGainSplit, GainOne \div 2, GainOne, GainOne + 1}

\* Label vectors of up to MaxCols entries, and one of MaxCols + 1 entries.
LabelVectors == RowsOver(Classes, MaxCols) \cup {[i \in 1..(MaxCols + 1) |-> i % 2]}

\* The training sets of up to MaxRows rows and up to MaxCols columns whose
\* last row holds the labels.
EmbeddedMatrices ==
  UNION {{Mat(c, fs \o <<last>>) :
            <<fs, last>> \in [1..(r - 1) -> [1..c -> FewVals]] \X [1..c -> Vals]} :
         <<r, c>> \in (1..MaxRows) \X (1..MaxCols)}

NoOutputs ==
  [set |-> {}, predictions |-> <<>>, probabilities |-> <<>>, output_model |-> NoModel]

\* The state when mlpackMain() is entered with the parameter store s.
Entered(s) ==
  /\ cli = s
  /\ testInfo = InfoOf(s.test)
  /\ out = NoOutputs
  /\ pc = "CheckMode"
  /\ error = "none"
  /\ model = NoModel
  /\ trainingSet = EmptyMat
  /\ labels = <<>>
  /\ predictions = <<>>
  /\ probabilities = <<>>
  /\ log = <<>>
  /\ calls = <<>>
  /\ phases = <<>>
  /\ oob = FALSE

\* Every combination of passed parameters and of the two numeric options,
\* on one small dataset.
OptionInputs ==
  \E passed \in SUBSET Params, leaf \in LeafSizes, gain \in GainSplits :
    Entered(Store(passed, Mat(2, <<<<-1, 3>>, <<-1, 3>>>>), <<0, 1>>,
                  Mat(2, <<<<3, -1>>>>), <<0, 1>>,
                  SavedModel(Mat(2, <<<<-1, 3>>>>), <<0, 1>>), leaf, gain))

\* Training sets whose last row holds the labels.
EmbeddedLabelInputs ==
  \E flags \in SUBSET {"print_training_error"}, training \in EmbeddedMatrices :
    Entered(Store({"training", "output_model"} \cup flags, training, <<>>, EmptyMat,
                  <<>>, NoModel, DefaultLeafSize, DefaultGainSplit))

\* Training sets with a label vector of their own, of any length.
ExplicitLabelInputs ==
  \E flags \in SUBSET {"print_training_error"},
     training \in MatricesOver(FewVals, MaxRows, MaxCols), labs \in LabelVectors :
    Entered(Store({"training", "labels", "output_model"} \cup flags, training, labs,
                  EmptyMat, <<>>, NoModel, 1, DefaultGainSplit))

\* Test sets, with and without test labels, for a loaded model.
LoadedTestInputs ==
  \E flags \in SUBSET {"test_labels"}, test \in MatricesOver(FewVals, MaxRows, MaxCols),
     test_labels \in LabelVectors, input_model \in SavedModels :
    Entered(Store({"input_model", "test", "predictions", "probabilities"} \cup flags,
                  EmptyMat, <<>>, test, test_labels, input_model,
                  DefaultLeafSize, DefaultGainSplit))

\* Test sets, with and without test labels, for a model trained in the run.
TrainedTestInputs ==
  \E flags \in SUBSET {"test_labels"}, test \in MatricesOver(FewVals, MaxRows, MaxCols),
     test_labels \in LabelVectors :
    Entered(Store({"training", "labels", "test", "predictions"} \cup flags,
                  Mat(2, <<<<-1, 3>>>>), <<1, 0>>, test, test_labels, NoModel,
                  DefaultLeafSize, DefaultGainSplit))

Init ==
  \/ OptionInputs
  \/ EmbeddedLabelInputs
  \/ ExplicitLabelInputs
  \/ LoadedTestInputs
  \/ TrainedTestInputs

Next ==
  \/ CheckMode
  \/ ReportIgnored
  \/ CheckLeafSize
  \/ CheckGainSplit
  \/ LoadModel
  \/ ResolveLabels
  \/ Train
  \/ PrintTrainingError
  \/ TestClassify
  \/ TestAccuracy
  \/ SaveOutputs
  \/ SaveModel

Spec == Init /\ [][Next]_vars

\* ============================================================== properties
ValidationSteps == {"CheckMode", "ReportIgnored", "CheckLeafSize", "CheckGainSplit"}

Called(f) == f \in Range(calls)

Ran(step) == step \in Range(phases)

BothModes == {"training", "input_model"} \subseteq cli.passed

NeitherMode == {"training", "input_model"} \cap cli.passed = {}

LeafSizeValid == cli.minimum_leaf_size >= 1

GainSplitValid == 0 < cli.minimum_gain_split /\ cli.minimum_gain_split < GainOne

ConfigurationFailure == pc = "failed" /\ error = "ConfigurationError"

\* C1: exactly one of training and input_model must be passed.  Once line 131
\* has run, a run that passed both or neither has failed with a configuration
\* error, has called neither the training constructor nor Classify, and has
\* written no output parameter; every run that goes on passed exactly one.
C1_ExactlyOneMode ==
  /\ ((BothModes \/ NeitherMode) /\ pc # "CheckMode")
       => /\ ConfigurationFailure
          /\ calls = <<>>
          /\ model = NoModel
          /\ out = NoOutputs
  /\ (pc \notin {"CheckMode", "failed"}) => ~(BothModes \/ NeitherMode)

C1_Witness ==
  /\ BothModes
  /\ ConfigurationFailure
  /\ phases = <<"CheckMode">>

C3_LabelCountChecked ==
  /\ (Called("Train") /\ HasParam("labels"))
       => Len(cli.labels) = cli.training.n_cols
  /\ ( /\ HasParam("training")
       /\ HasParam("labels")
       /\ Len(cli.labels) # cli.training.n_cols
       /\ pc \notin ValidationSteps \cup {"LoadOrTrain"} )
       => (pc = "failed" /\ error = "InvalidInputError")

\* C4: without the labels parameter, label resolution removes exactly the last
\* row: the training set given to the constructor is the input's rows but the
\* last, in order and unchanged, and the label of each column is the integer
\* conversion of the last row's entry in that column.
C4_LastRowIsLabels ==
  (Ran("ResolveLabels") /\ ~HasParam("labels"))
    => /\ n_rows(trainingSet) = n_rows(cli.training) - 1
       /\ trainingSet.n_cols = cli.training.n_cols
       /\ \A r \in 1..(n_rows(cli.training) - 1) :
            Row(trainingSet, r) = Row(cli.training, r)
       /\ Len(labels) = cli.training.n_cols
       /\ \A c \in 1..cli.training.n_cols :
            labels[c] = ConvToSizeT(Row(cli.training, n_rows(cli.training))[c])
       /\ Called("Train") /\ model.tree # NoTree
            => (model.tree.data = trainingSet /\ model.tree.labels = labels)

C4_Witness ==
  /\ Called("Train")
  /\ ~HasParam("labels")
  /\ n_rows(cli.training) = 2
  /\ cli.training.n_cols = 2
  /\ Row(cli.training, 1) # Row(cli.training, 2)
  /\ Row(cli.training, 2) = <<-1, 3>>
  /\ labels = <<0, 1>>
  /\ trainingSet.rows = <<Row(cli.training, 1)>>

\* What a run computes from the parameters that are read: the model, the
\* calls and the output parameters of a run that reaches line 250.
ExpectedModel ==
  IF HasParam("training")
    THEN DecisionTreeModel(
           TrainTree(ResolvedTrainingSet, cli.training_info, ResolvedLabels,
                     NumClasses(ResolvedLabels),
                     IF HasParam("weights") THEN cli.weights ELSE <<>>,
                     cli.minimum_leaf_size, cli.minimum_gain_split),
           cli.training_info)
    ELSE cli.input_model

ExpectedCalls ==
  (IF HasParam("training") THEN <<"Train">> ELSE <<>>)
  \o (IF HasParam("training") /\ HasParam("print_training_error")
        THEN <<"Classify">> ELSE <<>>)
  \o (IF HasParam("test") THEN <<"Classify">> ELSE <<>>)

ExpectedOut ==
  IF HasParam("test")
    THEN [set           |-> {"predictions", "probabilities", "output_model"},
          predictions   |-> [c \in 1..cli.test.n_cols |->
                               ClassifyPoint(ExpectedModel.tree, Col(cli.test, c))],
          probabilities |-> ClassifyProbabilities(ExpectedModel.tree, cli.test),
          output_model  |-> ExpectedModel]
    ELSE [set           |-> {"output_model"},
          predictions   |-> <<>>,
          probabilities |-> <<>>,
          output_model  |-> ExpectedModel]

Logged(entry) == entry \in Range(log)

\* The warning-level irregularities of lines 132-138.
IgnoredTestLabels == HasParam("test_labels") /\ ~HasParam("test")

IgnoredPrintTrainingError == HasParam("print_training_error") /\ ~HasParam("training")

IgnoredPredictions == HasParam("predictions") /\ ~HasParam("test")

NoOutputRequested == cli.passed \cap {"output_model", "probabilities", "predictions"} = {}

WarningLevelOnly ==
  /\ IgnoredTestLabels \/ IgnoredPrintTrainingError \/ IgnoredPredictions
       \/ NoOutputRequested
  /\ ~(BothModes \/ NeitherMode)
  /\ LeafSizeValid
  /\ GainSplitValid
  /\ (HasParam("training") /\ HasParam("labels"))
       => Len(cli.labels) = cli.training.n_cols
  /\ (HasParam("test") /\ HasParam("test_labels"))
       => Len(cli.test_labels) = cli.test.n_cols

\* C5: warnings never abort the run.  A run whose only irregularities are the
\* warning-level ones is never ended by a check, always has a next step until
\* it is done (it can only be ended by the classifier refusing the test set),
\* and ends with the calls and the outputs fixed by the parameters that are
\* not ignored; each irregularity is reported.
C5_WarningsDoNotAbort ==
  WarningLevelOnly
    => /\ pc = "failed"
            => /\ error = "ClassifierError"
               /\ HasParam("test")
               /\ ~ClassifyAccepts(ExpectedModel.tree, cli.test)
       /\ (pc \notin {"done", "failed"}) => ENABLED Next
       /\ pc = "done" => (out = ExpectedOut /\ calls = ExpectedCalls)
       /\ (pc \notin {"CheckMode", "ReportIgnored"})
            => /\ IgnoredTestLabels => Logged(Warning("test_labels"))
               /\ IgnoredPrintTrainingError => Logged(Warning("print_training_error"))
               /\ IgnoredPredictions => Logged(Warning("predictions"))
               /\ NoOutputRequested => Logged(Warning("no output will be saved"))

C5_Witness ==
  /\ WarningLevelOnly
  /\ IgnoredTestLabels
  /\ IgnoredPrintTrainingError
  /\ NoOutputRequested
  /\ pc = "done"
  /\ Len(log) >= 3

\* C6: when a test set is passed and the run completes, predictions and
\* probabilities are set to the classifier's results for the test set, one
\* entry and one column per test point in the test set's order, whether or
\* not test_labels was passed and whatever it holds.
C6_TestOutputs ==
  (pc = "done" /\ HasParam("test"))
    => /\ {"predictions", "probabilities"} \subseteq out.set
       /\ Len(out.predictions) = cli.test.n_cols
       /\ Len(out.probabilities) = cli.test.n_cols
       /\ \A c \in 1..cli.test.n_cols :
            /\ out.predictions[c] = ClassifyPoint(ExpectedModel.tree, Col(cli.test, c))
            /\ out.probabilities[c] = ClassifyProbabilities(ExpectedModel.tree, cli.test)[c]

C6_Witness ==
  /\ pc = "done"
  /\ HasParam("test")
  /\ ~HasParam("test_labels")
  /\ cli.test.n_cols = 2
  /\ out.predictions = <<1, 0>>

\* C7: a run that completes ends with output_model set to the run's model: the
\* model trained from the training set and its DatasetInfo when training was
\* passed, the loaded model when input_model was passed; in load mode the
\* model is the loaded one at every later step.
C7_OutputModel ==
  /\ pc = "done"
       => /\ "output_model" \in out.set
          /\ out.output_model = model
          /\ out.output_model = ExpectedModel
  /\ Ran("LoadModel") => model = cli.input_model

C7_Witness ==
  /\ pc = "done"
  /\ HasParam("input_model")
  /\ Ran("TestClassify")
  /\ out.output_model = cli.input_model
  /\ out.output_model # NoModel

\* C8: the training accuracy is reported only when print_training_error was
\* passed and training took place, and the report is diagnostic only: it never
\* ends the run, it leaves the training set, the labels and the model as
\* training left them, and a run that completes has the outputs fixed by the
\* other parameters.
C8_ReportIsDiagnostic ==
  /\ (\E i \in 1..Len(log) : log[i].kind = "info" /\ log[i].param = "training")
       => (HasParam("print_training_error") /\ Called("Train"))
  /\ pc = "failed" => phases[Len(phases)] # "PrintTrainingError"
  /\ Ran("PrintTrainingError")
       => /\ model = ExpectedModel
          /\ trainingSet = ResolvedTrainingSet
          /\ labels = ResolvedLabels
  /\ pc = "done" => out = ExpectedOut

\* The order of the steps in the text of mlpackMain().
StepOrder ==
  <<"CheckMode", "ReportIgnored", "CheckLeafSize", "CheckGainSplit", "LoadModel",
    "ResolveLabels", "Train", "PrintTrainingError", "TestClassify", "TestAccuracy",
    "SaveOutputs", "SaveModel">>

Ord(step) == CHOOSE i \in 1..Len(StepOrder) : StepOrder[i] = step

\* C9: the phases run in the order validate, train or load, training report,
\* test inference, persistence.  Every call of the training constructor or of
\* Classify comes after all four checks, with exactly one mode and both
\* options in range; a run ended by a configuration error has made no call and
\* run nothing but checks; a failed run takes no further step.
C9_PhaseOrder ==
  /\ \A i, j \in 1..Len(phases) : i < j => Ord(phases[i]) < Ord(phases[j])
  /\ ~(Ran("LoadModel") /\ Ran("ResolveLabels"))
  /\ calls # <<>>
       => /\ ValidationSteps \subseteq Range(phases)
          /\ ~(BothModes \/ NeitherMode)
          /\ LeafSizeValid
          /\ GainSplitValid
  /\ error = "ConfigurationError"
       => (calls = <<>> /\ Range(phases) \subseteq ValidationSteps)
  /\ (pc = "failed") = (error # "none")
  /\ pc = "failed" => ~ENABLED Next
  /\ Ran("SaveModel") => (Ran("LoadModel") \/ Ran("Train"))

C9_Witness ==
  /\ pc = "done"
  /\ phases = <<"CheckMode", "ReportIgnored", "CheckLeafSize", "CheckGainSplit",
                "ResolveLabels", "Train", "PrintTrainingError", "TestClassify",
                "TestAccuracy", "SaveOutputs", "SaveModel">>

\* C10: in both accuracy loops every index read lies inside predictions and
\* inside the label vector, also when the label vector has fewer entries than
\* the dataset has columns; the reported count is the number of positions
\* where prediction and label agree and lies between 0 and the sample count.
C10_IndicesInBounds ==
  /\ ~oob
  /\ error # "Crash"
  /\ \A i \in 1..Len(log) :
       log[i].kind = "info" /\ log[i].param \in {"training", "test"}
         => (0 <= log[i].correct /\ log[i].correct <= log[i].total)
  /\ Logged(Accuracy("test", 0, cli.test.n_cols))
       => \A c \in 1..cli.test.n_cols : predictions[c] # cli.test_labels[c]

====
